---- MODULE Spec2Model ----
(***************************************************************************)
(* Model of snape, a wrapper around python virtual environments.           *)
(*                                                                         *)
(* The filesystem is a finite tree of paths (sequences of segments); a     *)
(* directory carries the two artifacts the validity check looks at: the    *)
(* activation file of the configured shell and bin/python.  The external   *)
(* capabilities (venv.create, pip freeze, pip install, the yes/no prompt)  *)
(* are inputs of the operations: their answers are drawn with \E.          *)
(***************************************************************************)
EXTENDS Integers, Sequences, FiniteSets, TLC

VARIABLES
    fs,                  \* the filesystem: path -> node
    SNAPE_ROOT_PATH,     \* env_var.SNAPE_ROOT_PATH, the global root
    SNAPE_VENV,          \* env_var.SNAPE_VENV, the local marker name
    VIRTUAL_ENV,         \* env_var.VIRTUAL_ENV, the active environment or None
    cwd,                 \* Path.cwd()
    FORBIDDEN_ENV_NAMES, \* snape.config.FORBIDDEN_ENV_NAMES
    started,             \* whether snape.cli has been imported
    last                 \* what the last operation did (observation record)

vars == <<fs, SNAPE_ROOT_PATH, SNAPE_VENV, VIRTUAL_ENV, cwd, FORBIDDEN_ENV_NAMES, started, last>>

config == <<SNAPE_ROOT_PATH, SNAPE_VENV, VIRTUAL_ENV, cwd>>

-----------------------------------------------------------------------------
(* Bounds *)

\* number of distinct packages pip can report or install
NPkgs == 1

\* longest list of names given to snape delete
MaxEnvs == 2

Pkgs == 1..NPkgs

-----------------------------------------------------------------------------
(* Paths *)

\* Python's None, for a path or a name
None == <<"None">>

Root == <<"snape">>
Home == <<"home">>

EnvA      == <<"snape", "a">>
EnvAB     == <<"snape", "a", "b">>
EnvHere   == <<"snape", "here">>
LocalEnv  == <<"home", ".venv">>
UserEnv   == <<"home", "old">>

\* the paths the filesystem of the model holds (closed under parent)
Paths == {<<>>, Root, Home, EnvA, EnvAB, EnvHere, LocalEnv, UserEnv}

\* the paths an operation is given
TargetPaths == {EnvA, EnvAB, EnvHere, LocalEnv, UserEnv}

\* the names of global environments an operation is given
NameInputs == {<<"a">>, <<"a", "b">>, <<"here">>}

parent(p) == IF p = <<>> THEN <<>> ELSE SubSeq(p, 1, Len(p) - 1)

name(p) == IF p = <<>> THEN "" ELSE p[Len(p)]

\* Path.parents: every strict ancestor
parents(p) == {SubSeq(p, 1, i) : i \in 0..(Len(p) - 1)}

RECURSIVE resolve(_, _)
\* Path.resolve on the segments still to read: "." and "" vanish, ".." pops
resolve(done, todo) ==
    IF todo = <<>> THEN done
    ELSE LET s == Head(todo) IN
         IF s = "." \/ s = "" THEN resolve(done, Tail(todo))
         ELSE IF s = ".." THEN resolve(parent(done), Tail(todo))
         ELSE resolve(Append(done, s), Tail(todo))

absolute_path(p) == resolve(<<>>, p)

-----------------------------------------------------------------------------
(* Filesystem nodes *)

Absent     == [kind |-> "absent", act |-> "none", py |-> "none"]
File       == [kind |-> "file",   act |-> "none", py |-> "none"]
PlainDir   == [kind |-> "dir",    act |-> "none", py |-> "none"]
\* what venv.create and the test suite's create_dummy_venv leave
DummyVenv  == [kind |-> "dir",    act |-> "file", py |-> "file"]
\* the test suite's create_dummy_broken_venv
BrokenVenv == [kind |-> "dir",    act |-> "dir",  py |-> "none"]

node(f, p) == IF p \in DOMAIN f THEN f[p] ELSE Absent

is_dir(f, p)  == node(f, p).kind = "dir"
is_file(f, p) == node(f, p).kind = "file"
exists(f, p)  == node(f, p).kind # "absent"

TreeOk(f) == \A p \in DOMAIN f : exists(f, p) /\ p # <<>> => is_dir(f, parent(p))

\* os.makedirs(p, exist_ok=True) on a tree without files on the way
makedirs(f, p) ==
    [q \in DOMAIN f |->
        IF (q \in parents(p) \/ q = p) /\ ~exists(f, q) THEN PlainDir ELSE f[q]]

\* a regular file among p and its ancestors
file_on_way(f, p) == \E q \in parents(p) \cup {p} : is_file(f, q)

\* rmtree mutated: the content goes, the directory itself stays
rmtree_keeps_root(f, p) ==
    [q \in DOMAIN f |->
        IF p \in parents(q) THEN Absent ELSE IF q = p THEN PlainDir ELSE f[q]]

\* shutil.rmtree(p): p and everything below it is gone
rmtree(f, p) ==
    [q \in DOMAIN f |-> IF q = p \/ p \in parents(q) THEN Absent ELSE f[q]]

\* what a path is, as an observer of the filesystem sees it
Kind(f, p) ==
    IF ~exists(f, p) THEN "absent"
    ELSE IF is_file(f, p) THEN "file"
    ELSE IF node(f, p).act = "file" /\ node(f, p).py = "file" THEN "env"
    ELSE "dir"

-----------------------------------------------------------------------------
(* snape.virtualenv.util *)

\* is_virtual_env mutated: any directory with an activation artifact passes
is_virtual_env_lax(f, env) ==
    is_dir(f, env) /\ node(f, env).act # "none"

is_virtual_env(f, env) ==
    is_dir(f, env) /\ node(f, env).act = "file" /\ node(f, env).py = "file"

is_active_virtual_env(env) ==
    VIRTUAL_ENV # None /\ absolute_path(VIRTUAL_ENV) = absolute_path(env)

\* ensure_virtual_env mutated: every existing directory passes
ensure_virtual_env_dirs(f, env) ==
    IF ~is_dir(f, env)
    THEN [exc |-> "NotADirectoryError", ret |-> None]
    ELSE [exc |-> "ok", ret |-> absolute_path(env)]

ensure_virtual_env(f, env) ==
    IF ~is_dir(f, env)
    THEN [exc |-> "NotADirectoryError", ret |-> None]
    ELSE IF ~is_virtual_env(f, env)
    THEN [exc |-> "SystemError", ret |-> None]
    ELSE [exc |-> "ok", ret |-> absolute_path(env)]

\* pip freeze: the capability answers with a package list or fails
get_env_packages(freeze_ok, pkgs) ==
    IF ~freeze_ok
    THEN [exc |-> "RuntimeError", packages |-> {}]
    ELSE [exc |-> "ok", packages |-> pkgs]

\* install_packages mutated: the exit code of pip is not looked at
install_packages_unchecked(env, packages, pip_ok) ==
    IF packages = {}
    THEN [exc |-> "ok", ret |-> TRUE, calls |-> {}]
    ELSE IF env = None
    THEN [exc |-> "TypeError", ret |-> FALSE, calls |-> {}]
    ELSE [exc |-> "ok", ret |-> TRUE, calls |-> {<<env, packages, pip_ok>>}]

\* install_packages: no call of pip for the empty list; env / "bin/pip" raises
\* TypeError when env is None; otherwise the result is pip's exit code
install_packages(env, packages, pip_ok) ==
    IF packages = {}
    THEN [exc |-> "ok", ret |-> TRUE, calls |-> {}]
    ELSE IF env = None
    THEN [exc |-> "TypeError", ret |-> FALSE, calls |-> {}]
    ELSE [exc |-> "ok", ret |-> pip_ok, calls |-> {<<env, packages, pip_ok>>}]

-----------------------------------------------------------------------------
(* snape.virtualenv.internal *)

is_global_snape_env_path(f, env, check_exists) ==
    /\ SNAPE_ROOT_PATH \in parents(absolute_path(env))
    /\ (~check_exists \/ is_dir(f, env))

is_global_snape_env(f, env) ==
    is_global_snape_env_path(f, env, TRUE) /\ is_virtual_env(f, env)

\* get_snape_env_path mutated: a missing name is not looked for
get_snape_env_path_unchecked(name_, local, warn_argument_conflicts) ==
    IF name_ # None /\ Len(name_) = 1 /\ name_[1] \in FORBIDDEN_ENV_NAMES
    THEN [exc |-> "NameError", ret |-> None, reads |-> 0]
    ELSE IF local
    THEN [exc |-> "ok", ret |-> absolute_path(cwd \o <<SNAPE_VENV>>), reads |-> 1]
    ELSE IF name_ = None
    THEN [exc |-> "TypeError", ret |-> None, reads |-> 0]
    ELSE [exc |-> "ok", ret |-> absolute_path(SNAPE_ROOT_PATH \o name_), reads |-> 1]

\* get_snape_env_path with all its parameters; a name is a sequence of
\* segments ("a/b" is <<"a", "b">>), "" is <<>>; reads counts the uses of
\* Path.cwd() and Path.resolve()
get_snape_env_path_full(name_, local, warn_argument_conflicts) ==
    IF name_ # None /\ Len(name_) = 1 /\ name_[1] \in FORBIDDEN_ENV_NAMES
    THEN [exc |-> "NameError", ret |-> None, reads |-> 0]
    ELSE IF warn_argument_conflicts /\ name_ = None /\ ~local
    THEN [exc |-> "RuntimeError", ret |-> None, reads |-> 0]
    ELSE IF local
    THEN [exc |-> "ok", ret |-> absolute_path(cwd \o <<SNAPE_VENV>>), reads |-> 1]
    ELSE IF name_ = None \/ name_ = <<>>
    THEN [exc |-> "ValueError", ret |-> None, reads |-> 0]
    ELSE [exc |-> "ok", ret |-> absolute_path(SNAPE_ROOT_PATH \o name_), reads |-> 1]

\* get_snape_env_path(name, local), warn_argument_conflicts at its default
get_snape_env_path(name_, local) ==
    get_snape_env_path_full(name_, local, TRUE)

RECURSIVE name_loop(_, _)
\* the while loop of get_snape_env_name: result is built innermost first
name_loop(global_env, result) ==
    IF parent(global_env) # SNAPE_ROOT_PATH
    THEN name_loop(parent(global_env), <<name(global_env)>> \o result)
    ELSE <<name(global_env)>> \o result

\* local_name mutated: every final segment is taken for a name
local_name_any(e) ==
    <<name(e)>>

\* the name of a path that is not below the global root
local_name(e) ==
    IF name(e) = SNAPE_VENV THEN <<name(e)>> ELSE None

\* get_snape_env_name mutated: the local marker is looked at first
get_snape_env_name_local_first(env_) ==
    IF env_ = None THEN None
    ELSE LET e == absolute_path(env_) IN
         IF name(e) = SNAPE_VENV
         THEN <<name(e)>>
         ELSE IF is_global_snape_env_path(fs, e, FALSE)
         THEN name_loop(e, <<>>)
         ELSE None

get_snape_env_name(env_) ==
    IF env_ = None THEN None
    ELSE LET e == absolute_path(env_) IN
         IF is_global_snape_env_path(fs, e, FALSE)
         THEN name_loop(e, <<>>)
         ELSE local_name(e)

\* venv.create(env, clear=...): clears the directory when asked to, makes the
\* missing parents and writes the interpreter and the activation scripts
venv_create(f, env, clear) ==
    LET f1 == IF clear /\ is_dir(f, env)
              THEN [q \in DOMAIN f |-> IF env \in parents(q) THEN Absent ELSE f[q]]
              ELSE f
        f2 == makedirs(f1, env)
    IN [f2 EXCEPT ![env] = DummyVenv]

\* the outcome of an operation of the lifecycle manager
Outcome(exc, ret, f, asked, reads, created, removed) ==
    [exc |-> exc, ret |-> ret, fs |-> f, asked |-> asked, reads |-> reads,
     created |-> created, removed |-> removed]

\* create_refusal mutated: the filesystem is looked at before the name
create_refusal_reads_first(f, env) ==
    IF is_file(f, env)
    THEN [exc |-> "NotADirectoryError", reads |-> 1]
    ELSE IF name(env) \in FORBIDDEN_ENV_NAMES
    THEN [exc |-> "NameError", reads |-> 1]
    ELSE IF is_dir(f, env) /\ ~is_virtual_env(f, env)
    THEN [exc |-> "IsADirectoryError", reads |-> 3]
    ELSE [exc |-> "ok", reads |-> IF is_dir(f, env) THEN 3 ELSE 2]

\* create_refusal mutated: the active environment is refused as delete does
create_refusal_active(f, env) ==
    IF name(env) \in FORBIDDEN_ENV_NAMES
    THEN [exc |-> "NameError", reads |-> 0]
    ELSE IF is_active_virtual_env(env)
    THEN [exc |-> "RuntimeError", reads |-> 0]
    ELSE IF is_file(f, env)
    THEN [exc |-> "NotADirectoryError", reads |-> 1]
    ELSE IF is_dir(f, env) /\ ~is_virtual_env(f, env)
    THEN [exc |-> "IsADirectoryError", reads |-> 3]
    ELSE [exc |-> "ok", reads |-> IF is_dir(f, env) THEN 3 ELSE 2]

\* the checks create_new_snape_env makes before it prompts or creates, in the
\* order of the code, with the number of filesystem queries made so far
\* (is_file, is_dir, is_virtual_env)
create_refusal(f, env) ==
    IF name(env) \in FORBIDDEN_ENV_NAMES
    THEN [exc |-> "NameError", reads |-> 0]
    ELSE IF is_file(f, env)
    THEN [exc |-> "NotADirectoryError", reads |-> 1]
    ELSE IF is_dir(f, env) /\ ~is_virtual_env(f, env)
    THEN [exc |-> "IsADirectoryError", reads |-> 3]
    ELSE [exc |-> "ok", reads |-> IF is_dir(f, env) THEN 3 ELSE 2]

\* whether the operator is asked to confirm the overwrite
overwrite_prompted(f, env, overwrite) ==
    is_dir(f, env) /\ overwrite = "None"

\* overwrite_declined mutated: the answer is not looked at
overwrite_declined_ignored(f, env, overwrite, answer) ==
    FALSE

\* whether create_new_snape_env returns None after the prompt
overwrite_declined(f, env, overwrite, answer) ==
    overwrite_prompted(f, env, overwrite) /\ ~answer

create_new_snape_env(f, env, overwrite, answer) ==
    LET r == create_refusal(f, env) IN
    IF r.exc # "ok"
    THEN Outcome(r.exc, None, f, <<>>, r.reads, {}, <<>>)
    ELSE LET asked == IF overwrite_prompted(f, env, overwrite)
                      THEN <<<<"overwrite", IF answer THEN "y" ELSE "n">>>>
                      ELSE <<>>
         IN
    IF overwrite_declined(f, env, overwrite, answer)
    THEN Outcome("ok", None, f, asked, r.reads, {}, <<>>)
    ELSE LET clear == IF overwrite_prompted(f, env, overwrite)
                      THEN TRUE ELSE overwrite = "True"
         IN IF file_on_way(f, parent(env))
            THEN Outcome("NotADirectoryError", None, f, asked, r.reads,
                         {<<env, clear>>}, <<>>)
            ELSE Outcome("ok", absolute_path(env), venv_create(f, env, clear),
                         asked, r.reads, {<<env, clear>>}, <<>>)

\* active_refusal mutated: the operator is asked before the check
active_refusal_after_prompt(env, do_ask, ignore_active) ==
    ~do_ask /\ ~ignore_active /\ is_active_virtual_env(env)

\* whether delete_snape_env refuses the environment before it prompts
active_refusal(env, do_ask, ignore_active) ==
    ~ignore_active /\ is_active_virtual_env(env)

\* delete_declined mutated: the answer is not looked at
delete_declined_ignored(do_ask, answer) ==
    FALSE

\* whether delete_snape_env raises SnapeCancel instead of removing
delete_declined(do_ask, answer) ==
    do_ask /\ ~answer

\* still_directory mutated: the result of the removal is not looked at
still_directory_unchecked(f, env) ==
    FALSE

\* the test after the removal
still_directory(f, env) ==
    is_dir(f, env)

delete_snape_env(f, env, do_ask, ignore_active, answer, interfere) ==
    IF active_refusal(env, do_ask, ignore_active)
    THEN Outcome("RuntimeError", None, f, <<>>, 0, {}, <<>>)
    ELSE LET asked == IF do_ask
                      THEN <<<<"delete", IF answer THEN "y" ELSE "n">>>>
                      ELSE <<>>
         IN
         IF delete_declined(do_ask, answer)
         THEN Outcome("SnapeCancel", None, f, asked, 1, {}, <<>>)
         ELSE
         IF ~exists(f, env)
         THEN Outcome("FileNotFoundError", None, f, asked, 1, {}, <<>>)
         ELSE IF is_file(f, env)
         THEN Outcome("NotADirectoryError", None, f, asked, 1, {}, <<>>)
         ELSE LET f1 == rmtree(f, env)
                  \* interfere: another process makes the directory again
                  \* between the removal and the check
                  f2 == IF interfere THEN [makedirs(f1, env) EXCEPT ![env] = PlainDir]
                        ELSE f1
                  removed == <<<<env, Kind(f, env)>>>>
              IN IF still_directory(f2, env)
                 THEN Outcome("SystemError", None, f2, asked, 2, {}, removed)
                 ELSE Outcome("ok", None, f2, asked, 2, {}, removed)

-----------------------------------------------------------------------------
(* snape.cli.commands: attach, detach, delete *)

\* the flags of attach and detach and the answers of the operator and of pip;
\* an answer nobody asks for is fixed, so that equal runs are drawn once
CopyInputs ==
    {i \in [do_ask : BOOLEAN, overwrite : BOOLEAN, delete_old : BOOLEAN,
            ignore_active : BOOLEAN, freeze_ok : BOOLEAN, packages : SUBSET Pkgs,
            ans_create : BOOLEAN, ans_overwrite : BOOLEAN, pip_ok : BOOLEAN,
            ans_delete : BOOLEAN] :
        /\ (~i.freeze_ok => i.packages = {} /\ i.ans_create /\ ~i.do_ask)
        /\ (~i.do_ask => i.ans_create /\ i.ans_delete)
        /\ (~i.ans_create => i.ans_overwrite /\ i.pip_ok /\ ~i.delete_old /\ ~i.overwrite)
        /\ (i.overwrite => i.ans_overwrite)
        /\ (i.packages = {} => i.pip_ok)
        /\ (~i.pip_ok => ~i.ignore_active /\ i.ans_delete)
        /\ (~i.delete_old => ~i.ignore_active /\ i.ans_delete)}

\* the input of a run that ends before any flag or answer is read
NoCopyInput ==
    [do_ask |-> FALSE, overwrite |-> FALSE, delete_old |-> FALSE,
     ignore_active |-> FALSE, freeze_ok |-> TRUE, packages |-> {},
     ans_create |-> TRUE, ans_overwrite |-> TRUE, pip_ok |-> TRUE,
     ans_delete |-> TRUE]

\* the outcome of attach and detach
CopyOutcome(stage, exc, ret, f, src, dest, asked, created, installs, removed) ==
    [stage |-> stage, exc |-> exc, ret |-> ret, fs |-> f, src |-> src, dest |-> dest,
     asked |-> asked, created |-> created, installs |-> installs, removed |-> removed]

\* same_path mutated: the two paths are never found equal
same_path_never(new_path, old_path) ==
    FALSE

\* the comparison of the destination with the source
same_path(new_path, old_path) ==
    new_path = old_path

snape_attach(f, env, here, global_name, i) ==
    LET e == ensure_virtual_env(f, env) IN
    IF e.exc # "ok"
    THEN CopyOutcome("resolve", e.exc, None, f, None, None, <<>>, {}, {}, <<>>)
    ELSE LET old_venv == e.ret IN
    IF parent(old_venv) = SNAPE_ROOT_PATH
    THEN CopyOutcome("resolve", "ok", None, f, old_venv, None, <<>>, {}, {}, <<>>)
    ELSE LET n == get_snape_env_path(global_name, here) IN
    IF n.exc # "ok"
    THEN CopyOutcome("resolve", n.exc, None, f, old_venv, None, <<>>, {}, {}, <<>>)
    ELSE LET new_venv_path == n.ret IN
    IF same_path(new_venv_path, old_venv)
    THEN CopyOutcome("resolve", "ok", None, f, old_venv, new_venv_path, <<>>, {}, {}, <<>>)
    ELSE LET p == get_env_packages(i.freeze_ok, i.packages) IN
    IF p.exc # "ok"
    THEN CopyOutcome("copy", p.exc, None, f, old_venv, new_venv_path, <<>>, {}, {}, <<>>)
    ELSE IF i.do_ask /\ ~i.ans_create
    THEN CopyOutcome("copy", "SnapeCancel", None, f, old_venv, new_venv_path,
                     <<<<"create", "n">>>>, {}, {}, <<>>)
    ELSE LET asked1 == IF i.do_ask THEN <<<<"create", "y">>>> ELSE <<>>
             c == create_new_snape_env(f, new_venv_path,
                      IF i.overwrite THEN "True" ELSE "None", i.ans_overwrite)
             asked2 == asked1 \o c.asked
         IN
    IF c.exc # "ok"
    THEN CopyOutcome("copy", c.exc, None, c.fs, old_venv, new_venv_path,
                     asked2, c.created, {}, <<>>)
    ELSE LET inst == install_packages(c.ret, p.packages, i.pip_ok) IN
    IF inst.exc # "ok"
    THEN CopyOutcome("copy", inst.exc, None, c.fs, old_venv, new_venv_path,
                     asked2, c.created, inst.calls, <<>>)
    ELSE IF ~inst.ret
    THEN CopyOutcome("copy", "RuntimeError", None, c.fs, old_venv, new_venv_path,
                     asked2, c.created, inst.calls, <<>>)
    ELSE IF i.delete_old
    THEN LET d == delete_snape_env(c.fs, old_venv, i.do_ask, i.ignore_active,
                                   i.ans_delete, FALSE)
         IN CopyOutcome("copy", IF d.exc = "ok" THEN "ok" ELSE d.exc, None, d.fs,
                        old_venv, new_venv_path, asked2 \o d.asked, c.created,
                        inst.calls, d.removed)
    ELSE CopyOutcome("copy", "ok", None, c.fs, old_venv, new_venv_path,
                     asked2, c.created, inst.calls, <<>>)

snape_detach(f, path, here, global_name, i) ==
    LET n == get_snape_env_path(global_name, here) IN
    IF n.exc # "ok"
    THEN CopyOutcome("resolve", n.exc, None, f, None, None, <<>>, {}, {}, <<>>)
    ELSE LET snape_env_path == n.ret
             e == ensure_virtual_env(f, snape_env_path)
         IN
    IF e.exc # "ok"
    THEN CopyOutcome("resolve", e.exc, None, f, snape_env_path, None, <<>>, {}, {}, <<>>)
    ELSE LET snape_env == e.ret
             user_env_path == absolute_path(path)
         IN
    IF same_path(user_env_path, snape_env_path)
    THEN CopyOutcome("resolve", "ok", None, f, snape_env, user_env_path, <<>>, {}, {}, <<>>)
    ELSE LET p == get_env_packages(i.freeze_ok, i.packages) IN
    IF p.exc # "ok"
    THEN CopyOutcome("copy", p.exc, None, f, snape_env, user_env_path, <<>>, {}, {}, <<>>)
    ELSE IF i.do_ask /\ ~i.ans_create
    THEN CopyOutcome("copy", "SnapeCancel", None, f, snape_env, user_env_path,
                     <<<<"create", "n">>>>, {}, {}, <<>>)
    ELSE LET asked1 == IF i.do_ask THEN <<<<"create", "y">>>> ELSE <<>>
             c == create_new_snape_env(f, user_env_path,
                      IF i.overwrite THEN "True" ELSE "None", i.ans_overwrite)
             asked2 == asked1 \o c.asked
         IN
    IF c.exc # "ok"
    THEN CopyOutcome("copy", c.exc, None, c.fs, snape_env, user_env_path,
                     asked2, c.created, {}, <<>>)
    ELSE LET inst == install_packages(c.ret, p.packages, i.pip_ok) IN
    IF inst.exc # "ok"
    THEN CopyOutcome("copy", inst.exc, None, c.fs, snape_env, user_env_path,
                     asked2, c.created, inst.calls, <<>>)
    ELSE IF ~inst.ret
    THEN CopyOutcome("copy", "RuntimeError", None, c.fs, snape_env, user_env_path,
                     asked2, c.created, inst.calls, <<>>)
    ELSE IF i.delete_old
    THEN LET d == delete_snape_env(c.fs, snape_env, i.do_ask, i.ignore_active,
                                   i.ans_delete, FALSE)
         IN CopyOutcome("copy", d.exc, IF d.exc = "ok" THEN c.ret ELSE None, d.fs,
                        snape_env, user_env_path, asked2 \o d.asked, c.created,
                        inst.calls, d.removed)
    ELSE CopyOutcome("copy", "ok", c.ret, c.fs, snape_env, user_env_path,
                     asked2, c.created, inst.calls, <<>>)

\* the names snape delete is given
DeleteNames == {<<"a">>, <<"a", "b">>}

RECURSIVE SeqsUpTo(_, _)
\* the sequences over S of length at most n
SeqsUpTo(S, n) ==
    IF n = 0 THEN {<<>>}
    ELSE LET shorter == SeqsUpTo(S, n - 1)
         IN shorter \cup {Append(q, x) : q \in shorter, x \in S}

\* the arguments of snape delete and the operator's answer for each path in turn
DeleteInputs ==
    {i \in [envs : SeqsUpTo(DeleteNames, MaxEnvs), here : BOOLEAN, do_ask : BOOLEAN,
            ignore_not_exists : BOOLEAN, ignore_active : BOOLEAN,
            answers : [1..(MaxEnvs + 1) -> BOOLEAN]] :
        \A k \in 1..(MaxEnvs + 1) :
            (~i.do_ask \/ k > Len(i.envs) + (IF i.here THEN 1 ELSE 0)) => i.answers[k]}

DeleteOutcome(exc, f, asked, removed, deleted) ==
    [exc |-> exc, fs |-> f, asked |-> asked, removed |-> removed, deleted |-> deleted]

RECURSIVE delete_loop_stopping(_, _, _, _)
\* delete_loop mutated: a declined prompt ends the loop
delete_loop_stopping(acc, old_venv_paths, k, i) ==
    IF k > Len(old_venv_paths) THEN acc
    ELSE LET e == ensure_virtual_env(acc.fs, old_venv_paths[k]) IN
         IF e.exc # "ok"
         THEN IF i.ignore_not_exists
              THEN delete_loop_stopping(acc, old_venv_paths, k + 1, i)
              ELSE [acc EXCEPT !.exc = e.exc]
         ELSE LET d == delete_snape_env(acc.fs, e.ret, i.do_ask, i.ignore_active,
                                        i.answers[k], FALSE)
              IN IF d.exc = "SnapeCancel"
                 THEN [acc EXCEPT !.asked = acc.asked \o d.asked]
                 ELSE IF d.exc # "ok"
                 THEN DeleteOutcome(d.exc, d.fs, acc.asked \o d.asked,
                                    acc.removed \o d.removed, acc.deleted)
                 ELSE delete_loop_stopping(
                        DeleteOutcome("ok", d.fs, acc.asked \o d.asked,
                                      acc.removed \o d.removed,
                                      Append(acc.deleted, e.ret)),
                        old_venv_paths, k + 1, i)

RECURSIVE delete_loop(_, _, _, _)
\* the for loop of snape_delete from the k-th path on
delete_loop(acc, old_venv_paths, k, i) ==
    IF k > Len(old_venv_paths) THEN acc
    ELSE LET e == ensure_virtual_env(acc.fs, old_venv_paths[k]) IN
         IF e.exc # "ok"
         THEN IF i.ignore_not_exists
              THEN delete_loop(acc, old_venv_paths, k + 1, i)
              ELSE [acc EXCEPT !.exc = e.exc]
         ELSE LET d == delete_snape_env(acc.fs, e.ret, i.do_ask, i.ignore_active,
                                        i.answers[k], FALSE)
              IN IF d.exc = "SnapeCancel"
                 THEN delete_loop([acc EXCEPT !.asked = acc.asked \o d.asked],
                                  old_venv_paths, k + 1, i)
                 ELSE IF d.exc # "ok"
                 THEN DeleteOutcome(d.exc, d.fs, acc.asked \o d.asked,
                                    acc.removed \o d.removed, acc.deleted)
                 ELSE delete_loop(
                        DeleteOutcome("ok", d.fs, acc.asked \o d.asked,
                                      acc.removed \o d.removed,
                                      Append(acc.deleted, e.ret)),
                        old_venv_paths, k + 1, i)

snape_delete(f, i) ==
    IF Len(i.envs) = 0 /\ ~i.here
    THEN DeleteOutcome("ValueError", f, <<>>, <<>>, <<>>)
    ELSE LET resolved == [k \in 1..Len(i.envs) |-> get_snape_env_path(i.envs[k], FALSE)]
             failed == {k \in 1..Len(i.envs) : resolved[k].exc # "ok"}
         IN
    IF failed # {}
    THEN DeleteOutcome(resolved[CHOOSE k \in failed : \A j \in failed : k <= j].exc,
                       f, <<>>, <<>>, <<>>)
    ELSE LET global_paths == [k \in 1..Len(i.envs) |-> resolved[k].ret]
             old_venv_paths == IF i.here
                               THEN Append(global_paths, get_snape_env_path(None, TRUE).ret)
                               ELSE global_paths
         IN delete_loop(DeleteOutcome("ok", f, <<>>, <<>>, <<>>), old_venv_paths, 1, i)

-----------------------------------------------------------------------------
(* snape.cli: the command line surface and the forbidden names *)

\* the illegal-env-names the configuration ships
SeedForbiddenNames == {"here", "--here"}

\* parser._option_string_actions of the top-level parser
TopLevelOptionStrings ==
    {"-h", "--help", "-s", "--shell", "-q", "--quiet", "-v", "--verbose"}

\* parser._actions[-1].choices: the subcommands and their aliases
SubcommandChoices ==
    {"attach", "possess", "clean", "delete", "rm", "detach", "env", "help",
     "new", "setup", "status"}

\* the subcommands of snape setup
SetupSubcommandChoices == {"init", "remove"}

\* the option strings the subcommand parsers define
SubcommandOptionStrings ==
    {"-l", "--local", "--here", "--as", "-o", "--overwrite", "-q", "--quiet",
     "-n", "--no-update", "-d", "--delete-old", "-a", "--no-ask", "-i",
     "--ignore-active", "-f", "-e", "--ignore-not-exists", "-r", "--raw",
     "--all", "-p", "--packages", "-s", "--size", "--requirements", "--init",
     "--root", "-h", "--help"}

\* snape/cli/__init__.py: the two extend calls
cli_import(forbidden) ==
    forbidden \cup TopLevelOptionStrings \cup SubcommandChoices

-----------------------------------------------------------------------------
(* State machine *)

\* the observation of an operation that has not run
NoObs ==
    [op |-> "none", env |-> None, src |-> None, policy |-> "-", was |-> "-",
     src_was |-> "-", delete_old |-> FALSE, ignore_active |-> FALSE,
     interfered |-> FALSE, here |-> FALSE, global_name |-> None,
     freeze |-> FALSE, packages |-> {}, exc |-> "ok",
     ret |-> None, asked |-> <<>>, reads |-> 0, created |-> {}, installs |-> {},
     removed |-> <<>>, deleted |-> <<>>, changed |-> FALSE]

BaseFs ==
    [p \in Paths |-> IF p \in {<<>>, Root, Home} THEN PlainDir ELSE Absent]

Init ==
    /\ fs = BaseFs
    /\ SNAPE_ROOT_PATH = Root
    /\ SNAPE_VENV = ".venv"
    /\ cwd = Home
    /\ VIRTUAL_ENV \in {None, EnvA}
    /\ FORBIDDEN_ENV_NAMES = SeedForbiddenNames
    /\ started = FALSE
    /\ last = NoObs

\* import snape: snape.cli extends the forbidden names
Startup ==
    /\ ~started
    /\ started' = TRUE
    /\ FORBIDDEN_ENV_NAMES' = cli_import(FORBIDDEN_ENV_NAMES)
    /\ UNCHANGED <<fs, config, last>>

\* test fixture create_dummy_venv
create_dummy_venv ==
    /\ started /\ last.op = "none"
    /\ \E path \in TargetPaths \ {EnvHere} :
        /\ ~is_dir(fs, path)
        /\ ~file_on_way(fs, path)
        /\ fs' = [makedirs(fs, path) EXCEPT ![path] = DummyVenv]
    /\ last' = last
    /\ UNCHANGED <<config, FORBIDDEN_ENV_NAMES, started>>

\* test fixture create_dummy_broken_venv
create_dummy_broken_venv ==
    /\ started /\ last.op = "none"
    /\ \E path \in {EnvA, LocalEnv} :
        /\ ~is_dir(fs, path)
        /\ ~file_on_way(fs, path)
        /\ fs' = [makedirs(fs, path) EXCEPT ![path] = BrokenVenv]
    /\ last' = last
    /\ UNCHANGED <<config, FORBIDDEN_ENV_NAMES, started>>

\* a regular file where an environment could be (Path.touch)
touch ==
    /\ started /\ last.op = "none"
    /\ \E path \in {EnvA, EnvHere} :
        /\ ~exists(fs, path)
        /\ is_dir(fs, parent(path))
        /\ fs' = [fs EXCEPT ![path] = File]
    /\ last' = last
    /\ UNCHANGED <<config, FORBIDDEN_ENV_NAMES, started>>

\* a call of create_new_snape_env (snape new)
Create ==
    /\ started /\ last.op = "none"
    /\ \E env \in TargetPaths, overwrite \in {"True", "False", "None"}, answer \in BOOLEAN :
        /\ (answer = FALSE => overwrite = "None")
        /\ LET o == create_new_snape_env(fs, env, overwrite, answer) IN
            /\ fs' = o.fs
            /\ last' = [NoObs EXCEPT !.op = "create", !.env = env, !.policy = overwrite,
                            !.was = Kind(fs, env), !.exc = o.exc, !.ret = o.ret,
                            !.asked = o.asked, !.reads = o.reads,
                            !.created = o.created, !.changed = (o.fs # fs)]
    /\ UNCHANGED <<config, FORBIDDEN_ENV_NAMES, started>>

\* a call of delete_snape_env on a verified environment
Delete ==
    /\ started /\ last.op = "none"
    /\ \E env \in TargetPaths, do_ask \in BOOLEAN, ignore_active \in BOOLEAN,
          answer \in BOOLEAN, interfere \in BOOLEAN :
        /\ is_virtual_env(fs, env)
        /\ (~do_ask => answer)
        /\ (interfere => answer /\ ~ignore_active /\ ~is_active_virtual_env(env))
        /\ LET o == delete_snape_env(fs, env, do_ask, ignore_active, answer, interfere) IN
            /\ fs' = o.fs
            /\ last' = [NoObs EXCEPT !.op = "delete", !.env = env,
                            !.policy = IF do_ask THEN "ask" ELSE "no-ask",
                            !.ignore_active = ignore_active,
                            !.interfered = interfere,
                            !.was = Kind(fs, env), !.exc = o.exc,
                            !.asked = o.asked, !.reads = o.reads,
                            !.removed = o.removed, !.changed = (o.fs # fs)]
    /\ UNCHANGED <<config, FORBIDDEN_ENV_NAMES, started>>

\* the observation of a run of attach or detach
CopyObs(op, o, i) ==
    [NoObs EXCEPT !.op = op, !.env = o.dest, !.src = o.src,
        !.policy = IF o.stage = "resolve" THEN "-"
                   ELSE IF i.overwrite THEN "True" ELSE "None",
        !.was = IF o.dest = None THEN "-" ELSE Kind(fs, o.dest),
        !.src_was = IF o.src = None THEN "-" ELSE Kind(fs, o.src),
        !.delete_old = i.delete_old, !.freeze = (o.stage = "copy"),
        !.packages = i.packages,
        !.exc = o.exc, !.ret = o.ret, !.asked = o.asked,
        !.created = o.created, !.installs = o.installs, !.removed = o.removed,
        !.changed = (o.fs # fs)]

\* snape attach
Attach ==
    /\ started /\ last.op = "none"
    /\ \E env \in TargetPaths, here \in BOOLEAN, global_name \in NameInputs \cup {None} :
        \E i \in IF snape_attach(fs, env, here, global_name, NoCopyInput).stage = "resolve"
                 THEN {NoCopyInput} ELSE CopyInputs :
            LET o == snape_attach(fs, env, here, global_name, i) IN
                /\ fs' = o.fs
                /\ last' = [CopyObs("attach", o, i) EXCEPT
                                !.here = here, !.global_name = global_name]
    /\ UNCHANGED <<config, FORBIDDEN_ENV_NAMES, started>>

\* snape detach
Detach ==
    /\ started /\ last.op = "none"
    /\ \E path \in TargetPaths, here \in BOOLEAN, global_name \in NameInputs \cup {None} :
        \E i \in IF snape_detach(fs, path, here, global_name, NoCopyInput).stage = "resolve"
                 THEN {NoCopyInput} ELSE CopyInputs :
            LET o == snape_detach(fs, path, here, global_name, i) IN
                /\ fs' = o.fs
                /\ last' = [CopyObs("detach", o, i) EXCEPT
                                !.here = here, !.global_name = global_name]
    /\ UNCHANGED <<config, FORBIDDEN_ENV_NAMES, started>>

\* snape delete
DeleteCmd ==
    /\ started /\ last.op = "none"
    /\ \E i \in DeleteInputs :
        LET o == snape_delete(fs, i) IN
            /\ fs' = o.fs
            /\ last' = [NoObs EXCEPT !.op = "snape_delete", !.exc = o.exc,
                            !.asked = o.asked, !.removed = o.removed,
                            !.deleted = o.deleted, !.changed = (o.fs # fs)]
    /\ UNCHANGED <<config, FORBIDDEN_ENV_NAMES, started>>

\* the process ends: the next command runs in a new one
Exit ==
    /\ last.op # "none"
    /\ last' = NoObs
    /\ UNCHANGED <<fs, config, FORBIDDEN_ENV_NAMES, started>>

Next ==
    \/ Startup
    \/ Exit
    \/ create_dummy_venv
    \/ create_dummy_broken_venv
    \/ touch
    \/ Create
    \/ Delete
    \/ Attach
    \/ Detach
    \/ DeleteCmd

Spec == Init /\ [][Next]_vars

TypeOK ==
    /\ DOMAIN fs = Paths
    /\ TreeOk(fs)
    /\ started \in BOOLEAN

-----------------------------------------------------------------------------
(* Properties *)

\* the operator was asked the question q and gave the answer a
Answered(q, a) ==
    \E k \in 1..Len(last.asked) : last.asked[k] = <<q, a>>

\* C1: in attach and detach, when the operator declines the prompt to
\* overwrite the existing destination, the run stops there: no package is
\* installed and the source is not deleted, whatever the delete-old flag
\* and the package list are.
C1_DeclinedOverwriteStops ==
    (last.op \in {"attach", "detach"} /\ Answered("overwrite", "n"))
        => /\ last.installs = {}
           /\ last.removed = <<>>
           /\ Kind(fs, last.src) = last.src_was

\* C2: snape delete and the delete-old step of attach and detach remove
\* nothing but valid environments: every directory they remove was a
\* directory with an activation script and an interpreter.
C2_DeleteOnlyEnvironments ==
    last.op \in {"snape_delete", "attach", "detach"}
        => \A k \in 1..Len(last.removed) : last.removed[k][2] = "env"

C2_Witness ==
    /\ last.op = "snape_delete"
    /\ Len(last.removed) = 2
    /\ \E p \in Paths : fs[p] = BrokenVenv

\* C3: delete_snape_env on the active environment with ignore_active false
\* raises RuntimeError before any prompt and with no change of the
\* filesystem, whether do_ask is true or false.
C3_ActiveNotDeleted ==
    (last.op = "delete" /\ is_active_virtual_env(last.env) /\ ~last.ignore_active)
        => /\ last.exc = "RuntimeError"
           /\ last.asked = <<>>
           /\ last.removed = <<>>
           /\ ~last.changed
           /\ Kind(fs, last.env) = "env"

C3_Witness ==
    /\ last.op = "delete"
    /\ is_active_virtual_env(last.env)
    /\ ~last.ignore_active
    /\ last.policy = "ask"
    /\ last.exc = "RuntimeError"

\* C4 as stated: create_new_snape_env on a target that exists and is not a
\* valid environment fails under every overwrite policy, a regular file with
\* NotADirectoryError and a directory that is not an environment with
\* IsADirectoryError; venv.create is not called and nothing changes.
C4_Stated ==
    (last.op = "create" /\ last.was \in {"file", "dir"})
        => /\ last.was = "file" => last.exc = "NotADirectoryError"
           /\ last.was = "dir" => last.exc = "IsADirectoryError"
           /\ last.created = {}
           /\ ~last.changed

\* C4: create_new_snape_env on a target that exists and is not a valid
\* environment fails under every overwrite policy without a call of
\* venv.create and without a change: with NameError when the final segment
\* is a forbidden name, otherwise with NotADirectoryError for a regular file
\* and IsADirectoryError for a directory that is not an environment.
C4_NonEnvironmentRefused ==
    (last.op = "create" /\ last.was \in {"file", "dir"})
        => /\ last.exc = IF name(last.env) \in FORBIDDEN_ENV_NAMES THEN "NameError"
                         ELSE IF last.was = "file" THEN "NotADirectoryError"
                         ELSE "IsADirectoryError"
           /\ last.created = {}
           /\ ~last.changed
           /\ Kind(fs, last.env) = last.was

C4_Witness ==
    /\ last.op = "create"
    /\ last.was = "dir"
    /\ last.policy = "True"
    /\ last.exc = "IsADirectoryError"

\* C5: create_new_snape_env on a valid environment under the ask policy,
\* when the operator answers no to the prompt: the call returns None without
\* an exception, venv.create is not called and the environment is untouched.
C5_DeclinedCreateReturnsNone ==
    (last.op = "create" /\ last.was = "env" /\ last.policy = "None"
        /\ Answered("overwrite", "n"))
        => /\ last.exc = "ok"
           /\ last.ret = None
           /\ last.created = {}
           /\ ~last.changed
           /\ Kind(fs, last.env) = "env"

C5_Witness ==
    /\ last.op = "create"
    /\ last.was = "env"
    /\ last.policy = "None"
    /\ Answered("overwrite", "n")
    /\ last.ret = None

\* pip install was run and failed
InstallFailed ==
    \E c \in last.installs : ~c[3]

EnvTransitions ==
    {<<"absent", "env">>, <<"env", "absent">>, <<"env", "env">>}

C10_AllCommandWordsForbidden ==
    started =>
        (SubcommandChoices \cup TopLevelOptionStrings \cup SubcommandOptionStrings)
            \subseteq FORBIDDEN_ENV_NAMES

\* C11: when the destination of attach or detach resolves to the path of
\* the source, the run is a no-op: it returns None, leaves the filesystem
\* as it is, does not read the package list, puts no prompt and calls
\* neither create nor delete.
C11_SamePathNoOp ==
    (last.op \in {"attach", "detach"} /\ last.src # None /\ last.env = last.src)
        => /\ last.exc = "ok"
           /\ last.ret = None
           /\ ~last.changed
           /\ ~last.freeze
           /\ last.asked = <<>>
           /\ last.created = {}
           /\ last.installs = {}
           /\ last.removed = <<>>

C11_Witness ==
    /\ last.op = "attach"
    /\ last.src = EnvAB
    /\ last.env = EnvAB
    /\ last.ret = None

-----------------------------------------------------------------------------
(* The naming functions under every configuration *)

\* longest name, in segments, given to get_snape_env_path
MaxNameLen == 2

\* the segments a name given on the command line is made of
NameSegments == {"a", "b", "here", ".venv", ".", ".."}

RECURSIVE NamesUpTo(_)
NamesUpTo(n) ==
    IF n = 0 THEN {<<>>}
    ELSE LET shorter == NamesUpTo(n - 1) IN
         shorter \cup {Append(m, x) : m \in shorter, x \in NameSegments}

\* the names given to get_snape_env_path: "" and the slash-separated names
NamePool == NamesUpTo(MaxNameLen)

\* the values of SNAPE_ROOT
RootConfigs == {<<"snape">>, <<"home", ".venv">>, <<"home", "a">>}

\* the values of SNAPE_VENV
MarkerConfigs == {".venv", "a"}

\* a name the forbidden list does not hold and that is not empty
LegalName(n) ==
    n # <<>> /\ ~(Len(n) = 1 /\ n[1] \in FORBIDDEN_ENV_NAMES)

NameInit ==
    /\ fs = BaseFs
    /\ SNAPE_ROOT_PATH \in RootConfigs
    /\ SNAPE_VENV \in MarkerConfigs
    /\ cwd = Home
    /\ VIRTUAL_ENV = None
    /\ FORBIDDEN_ENV_NAMES = cli_import(SeedForbiddenNames)
    /\ started = TRUE
    /\ last = [op |-> "none"]

\* get_snape_env_path(n, False), the name of the result, and its path
ResolvePath ==
    /\ last.op = "none"
    /\ \E n \in NamePool :
        LET p == get_snape_env_path(n, FALSE)
            back == IF p.exc = "ok" THEN get_snape_env_name(p.ret) ELSE None
            again == IF p.exc = "ok" THEN get_snape_env_path(back, FALSE)
                     ELSE [exc |-> "-", ret |-> None]
        IN last' = [op |-> "get_snape_env_path", name |-> n, exc |-> p.exc,
                    path |-> p.ret, back |-> back, again |-> again]
    /\ UNCHANGED <<fs, config, FORBIDDEN_ENV_NAMES, started>>

\* get_snape_env_name on a path the tool produces, or on the root
NamePath ==
    /\ last.op = "none"
    /\ \E n \in NamePool, local \in BOOLEAN :
        LET p == get_snape_env_path(n, local)
            env == IF p.exc = "ok" THEN p.ret ELSE SNAPE_ROOT_PATH
        IN last' = [op |-> "get_snape_env_name", path |-> env,
                    ret |-> get_snape_env_name(env),
                    global |-> is_global_snape_env_path(fs, env, FALSE),
                    local |-> (name(absolute_path(env)) = SNAPE_VENV)]
    /\ UNCHANGED <<fs, config, FORBIDDEN_ENV_NAMES, started>>

\* a call of get_snape_env_path with any arguments
GetSnapeEnvPath ==
    /\ last.op = "none"
    /\ \E n \in NamePool \cup {None}, local \in BOOLEAN, warn \in BOOLEAN :
        LET p == get_snape_env_path_full(n, local, warn) IN
        last' = [op |-> "get_snape_env_path_full", name |-> n, local |-> local,
                 warn |-> warn, exc |-> p.exc, ret |-> p.ret, reads |-> p.reads]
    /\ UNCHANGED <<fs, config, FORBIDDEN_ENV_NAMES, started>>

NameNext == ResolvePath \/ NamePath \/ GetSnapeEnvPath

NameSpec == NameInit /\ [][NameNext]_vars

\* C12: for every legal name n, also a nested one, the path of the name of
\* the path of n is the path of n:
\* get_snape_env_path(get_snape_env_name(get_snape_env_path(n, False)), False)
\* = get_snape_env_path(n, False).
C12_NameRoundTrip ==
    (last.op = "get_snape_env_path" /\ LegalName(last.name))
        => /\ last.exc = "ok"
           /\ last.again.exc = "ok"
           /\ last.again.ret = last.path

\* the segments of a path below the root, counted from the root
RootRelative(p) ==
    SubSeq(p, Len(SNAPE_ROOT_PATH) + 1, Len(p))

\* C13 as stated: no path the tool produces is classified both as global
\* (the root is a strict ancestor) and as local (its final segment is the
\* local marker name).
C13_Stated ==
    last.op = "get_snape_env_name" => ~(last.global /\ last.local)

\* C13: the two tests can hold of one path (a path below the root whose
\* final segment is the marker); get_snape_env_name decides by precedence:
\* a path below the root gets its root-relative name, the marker name is
\* given only to a path not below the root, and any other path has no name.
C13_GlobalBeforeLocal ==
    last.op = "get_snape_env_name"
        => /\ last.global => last.ret = RootRelative(last.path)
           /\ (~last.global /\ last.local) => last.ret = <<SNAPE_VENV>>
           /\ (~last.global /\ ~last.local) => last.ret = None

C13_Witness ==
    /\ last.op = "get_snape_env_name"
    /\ last.global
    /\ last.local
    /\ Len(last.ret) = 2

\* C14 as stated: get_snape_env_name of the global root is None under every
\* configuration of root and marker.
C14_Stated ==
    (last.op = "get_snape_env_name" /\ last.path = SNAPE_ROOT_PATH)
        => last.ret = None

\* C14: get_snape_env_name of the global root is never a root-relative
\* name: it is None when the final segment of the root differs from the
\* local marker name, and the marker name when the two are equal.
C14_RootName ==
    (last.op = "get_snape_env_name" /\ last.path = SNAPE_ROOT_PATH)
        => /\ ~last.global
           /\ last.ret = IF name(SNAPE_ROOT_PATH) = SNAPE_VENV
                         THEN <<SNAPE_VENV>> ELSE None

C14_Witness ==
    /\ last.op = "get_snape_env_name"
    /\ last.path = SNAPE_ROOT_PATH
    /\ name(SNAPE_ROOT_PATH) # SNAPE_VENV
    /\ last.ret = None

-----------------------------------------------------------------------------
(* The queries of the filesystem under every directory tree *)

EnvC      == <<"snape", "c">>
TopLocal  == <<".venv">>
Work      == <<"home", "w">>
WorkLocal == <<"home", "w", ".venv">>

\* the paths of the trees the queries are run on
FsPaths ==
    {<<>>, TopLocal, Home, LocalEnv, Work, WorkLocal, Root, EnvA, EnvAB, EnvC}

\* what a path can hold: nothing, a regular file, or a directory in which
\* the activation artifact and bin/python are each missing, a file or a
\* directory
AllNodes ==
    {Absent, File} \cup
    [kind : {"dir"}, act : {"none", "file", "dir"}, py : {"none", "file", "dir"}]

TreeNodes == {Absent, File, PlainDir, DummyVenv, BrokenVenv}

\* the tree in which the given nodes sit below the directories that exist
MakeFs(r, a, b, c, l0, l1, l2) ==
    [p \in FsPaths |->
        IF p \in {<<>>, Home, Work} THEN PlainDir
        ELSE IF p = Root THEN r
        ELSE IF p = EnvA THEN (IF r.kind = "dir" THEN a ELSE Absent)
        ELSE IF p = EnvAB THEN (IF r.kind = "dir" /\ a.kind = "dir" THEN b ELSE Absent)
        ELSE IF p = EnvC THEN (IF r.kind = "dir" THEN c ELSE Absent)
        ELSE IF p = TopLocal THEN l0
        ELSE IF p = LocalEnv THEN l1
        ELSE l2]

FsInit ==
    /\ \E r \in {Absent, PlainDir, DummyVenv}, a \in TreeNodes, b \in TreeNodes,
          c \in AllNodes, l0 \in {Absent, DummyVenv}, l1 \in {Absent, DummyVenv, BrokenVenv},
          l2 \in {Absent, DummyVenv} :
        fs = MakeFs(r, a, b, c, l0, l1, l2)
    /\ SNAPE_ROOT_PATH = Root
    /\ SNAPE_VENV = ".venv"
    /\ cwd = Work
    /\ VIRTUAL_ENV = None
    /\ FORBIDDEN_ENV_NAMES = cli_import(SeedForbiddenNames)
    /\ started = TRUE
    /\ last = [op |-> "none"]

\* is_virtual_env on a path of the tree
IsVirtualEnv ==
    /\ last.op = "none"
    /\ \E p \in FsPaths :
        last' = [op |-> "is_virtual_env", path |-> p, node |-> node(fs, p),
                 exc |-> "ok", ret |-> is_virtual_env(fs, p)]
    /\ UNCHANGED <<fs, config, FORBIDDEN_ENV_NAMES, started>>

\* ensure_virtual_env on a path of the tree
EnsureVirtualEnv ==
    /\ last.op = "none"
    /\ \E p \in FsPaths :
        LET e == ensure_virtual_env(fs, p) IN
        last' = [op |-> "ensure_virtual_env", path |-> p, node |-> node(fs, p),
                 exc |-> e.exc, ret |-> e.ret]
    /\ UNCHANGED <<fs, config, FORBIDDEN_ENV_NAMES, started>>

\* C15: ensure_virtual_env raises NotADirectoryError for a path that is
\* not an existing directory (nothing there, or a regular file), SystemError
\* for a directory that is not a valid environment, and for a valid
\* environment returns its canonical absolute path, for which
\* is_virtual_env is true.
C15_EnsurePartition ==
    last.op = "ensure_virtual_env"
        => /\ last.node.kind # "dir" => last.exc = "NotADirectoryError"
           /\ (last.node.kind = "dir" /\ last.node # DummyVenv)
                => last.exc = "SystemError"
           /\ last.node = DummyVenv
                => /\ last.exc = "ok"
                   /\ last.ret = last.path
                   /\ fs[last.ret] = DummyVenv
                   /\ is_virtual_env(fs, last.ret)

C15_Witness ==
    /\ last.op = "ensure_virtual_env"
    /\ last.node = BrokenVenv
    /\ last.exc = "SystemError"

\* C16: is_virtual_env is true exactly of a directory in which the
\* activation artifact and bin/python are regular files; it never raises,
\* it is false of a path that does not exist, and false of the broken dummy
\* environment (activation artifact a directory, no interpreter).
C16_ValidityTest ==
    last.op = "is_virtual_env"
        => /\ last.exc = "ok"
           /\ last.ret = (last.node.kind = "dir" /\ last.node.act = "file"
                            /\ last.node.py = "file")
           /\ last.node \in {Absent, BrokenVenv} => ~last.ret

C16_Witness ==
    /\ last.op = "is_virtual_env"
    /\ last.node = BrokenVenv
    /\ ~last.ret

\* os.listdir(root): what exists directly below root
listdir(f, root) ==
    {q \in DOMAIN f : q # <<>> /\ parent(q) = root /\ exists(f, q)}

\* what _get_environments gives: the environments found and the directories
\* it listed
Found(ret, visited) == [ret |-> ret, visited |-> visited]

RECURSIVE get_environments_descending(_, _)
\* _get_environments mutated: a valid environment is reported and searched
get_environments_descending(f, root) ==
    IF ~is_dir(f, root) THEN Found({}, {})
    ELSE LET sub(env) ==
                 IF is_dir(f, env)
                 THEN LET r == get_environments_descending(f, env) IN
                      Found(r.ret \cup (IF is_virtual_env(f, env) THEN {env} ELSE {}),
                            r.visited)
                 ELSE Found({}, {})
             kids == listdir(f, root)
         IN Found(UNION {sub(env).ret : env \in kids},
                  {root} \cup UNION {sub(env).visited : env \in kids})

RECURSIVE get_environments(_, _)
\* _get_environments(root); the order of os.listdir is not specified, so the
\* list it returns is kept as a set
get_environments(f, root) ==
    IF ~is_dir(f, root) THEN Found({}, {})
    ELSE LET sub(env) ==
                 IF is_virtual_env(f, env) THEN Found({env}, {})
                 ELSE IF is_dir(f, env) THEN get_environments(f, env)
                 ELSE Found({}, {})
             kids == listdir(f, root)
         IN Found(UNION {sub(env).ret : env \in kids},
                  {root} \cup UNION {sub(env).visited : env \in kids})

get_global_snape_envs(f) == get_environments(f, SNAPE_ROOT_PATH)

RECURSIVE iter_local_snape_envs(_, _)
\* the generator iter_local_snape_envs, as the sequence of what it yields
iter_local_snape_envs(f, local_env_dir) ==
    IF parent(local_env_dir) = local_env_dir THEN <<>>
    ELSE LET local_env == local_env_dir \o <<SNAPE_VENV>> IN
         (IF is_virtual_env(f, local_env) THEN <<local_env>> ELSE <<>>)
             \o iter_local_snape_envs(f, parent(local_env_dir))

\* get_global_snape_envs on the tree
GetGlobalSnapeEnvs ==
    /\ last.op = "none"
    /\ LET r == get_global_snape_envs(fs) IN
        last' = [op |-> "get_global_snape_envs", ret |-> r.ret,
                 visited |-> r.visited]
    /\ UNCHANGED <<fs, config, FORBIDDEN_ENV_NAMES, started>>

\* iter_local_snape_envs from a directory, or from Path.cwd() for None
IterLocalSnapeEnvs ==
    /\ last.op = "none"
    /\ \E start \in {None, <<>>, Home, Work} :
        LET dir == IF start = None THEN cwd ELSE start IN
        last' = [op |-> "iter_local_snape_envs", cwd |-> dir,
                 ret |-> iter_local_snape_envs(fs, dir)]
    /\ UNCHANGED <<fs, config, FORBIDDEN_ENV_NAMES, started>>

\* C17: get_global_snape_envs lists no directory that is a valid
\* environment other than the one it starts from, so no path it returns lies
\* inside another path it returns, and every path it returns is a valid
\* environment strictly below the root.
C17_EnumerationNotNested ==
    last.op = "get_global_snape_envs"
        => /\ \A d \in last.visited \ {SNAPE_ROOT_PATH} : fs[d] # DummyVenv
           /\ \A p \in last.ret, q \in last.ret : p \notin parents(q)
           /\ \A p \in last.ret :
                fs[p] = DummyVenv /\ SNAPE_ROOT_PATH \in parents(p)

C17_Witness ==
    /\ last.op = "get_global_snape_envs"
    /\ fs[EnvA] = DummyVenv
    /\ fs[EnvAB] = DummyVenv
    /\ EnvA \in last.ret

\* the directories from dir up to and including the filesystem root,
\* nearest first
Upward(dir) ==
    [k \in 1..(Len(dir) + 1) |-> SubSeq(dir, 1, Len(dir) + 1 - k)]

\* C18: iter_local_snape_envs(startDir) yields, nearest first, the path
\* <ancestor>/<marker> for exactly those directories among startDir and all
\* its ancestors up to the filesystem root for which that path is a valid
\* environment.
C18_LocalWalk ==
    last.op = "iter_local_snape_envs"
        => last.ret = SelectSeq([k \in 1..(Len(last.cwd) + 1) |->
                                    Upward(last.cwd)[k] \o <<SNAPE_VENV>>],
                                LAMBDA e : fs[e] = DummyVenv)

FsNext == IsVirtualEnv \/ EnsureVirtualEnv \/ GetGlobalSnapeEnvs \/ IterLocalSnapeEnvs

FsSpec == FsInit /\ [][FsNext]_vars

-----------------------------------------------------------------------------
(* Properties of delete_snape_env *)

\* C19: delete_snape_env with do_ask on an environment that is not refused
\* as active: the answer no raises SnapeCancel, which is not one of the
\* errors, and removes nothing; the tree is removed only after the answer
\* yes or when do_ask is false.
C19_DeclinedDeleteCancels ==
    last.op = "delete"
        => /\ (last.policy = "ask" /\ Answered("delete", "n"))
                => /\ last.exc = "SnapeCancel"
                   /\ last.removed = <<>>
                   /\ ~last.changed
                   /\ Kind(fs, last.env) = "env"
           /\ (last.removed # <<>> \/ last.changed)
                => (last.policy = "no-ask" /\ last.asked = <<>>)
                     \/ (last.policy = "ask" /\ last.asked = <<<<"delete", "y">>>>)

C19_Witness ==
    /\ last.op = "delete"
    /\ ~is_active_virtual_env(last.env)
    /\ last.policy = "ask"
    /\ Answered("delete", "n")
    /\ last.exc = "SnapeCancel"

\* C20: delete_snape_env returns normally only when, after the removal, the
\* path is no directory any more; when it still is one, SystemError is
\* raised.
C20_DeletionVerified ==
    last.op = "delete"
        => /\ last.exc = "ok" => (last.removed # <<>> /\ ~is_dir(fs, last.env))
           /\ (last.removed # <<>> /\ is_dir(fs, last.env))
                => last.exc = "SystemError"

C20_Witness ==
    /\ last.op = "delete"
    /\ last.interfered
    /\ last.removed # <<>>
    /\ is_dir(fs, last.env)
    /\ last.exc = "SystemError"

-----------------------------------------------------------------------------
(* The process: snape.cli.main and the main script *)

\* the handlers the subcommand parsers bind to func
Funcs ==
    {"snape_attach", "snape_clean", "snape_delete", "snape_detach", "snape_env",
     "snape_help", "snape_new", "snape_setup", "snape_setup_init",
     "snape_setup_remove", "snape_status"}

\* how a handler ends: it returns, or raises one of the exceptions the
\* commands raise; all of them but SnapeCancel are errors
HandlerExceptions ==
    {"ok", "SnapeCancel", "NameError", "NotADirectoryError", "IsADirectoryError",
     "RuntimeError", "SystemError", "ValueError", "TypeError", "FileNotFoundError",
     "KeyError", "StopIteration"}

\* main(): the shell is checked, then the root, then the handler is called
main(f, func, shell_ok, handler_exc) ==
    IF ~shell_ok
    THEN [dispatched |-> FALSE, exc |-> "KeyError"]
    ELSE IF func # "snape_setup_init" /\ SNAPE_ROOT_PATH # None
            /\ ~is_dir(f, SNAPE_ROOT_PATH)
    THEN [dispatched |-> FALSE, exc |-> "NotADirectoryError"]
    ELSE [dispatched |-> TRUE, exc |-> handler_exc]

\* run mutated: the cancellation is handled like every other exception
run_cancel_as_error(exc) ==
    IF exc = "ok" THEN [code |-> 0, stderr |-> <<>>]
    ELSE [code |-> 1, stderr |-> <<exc>>]

\* the main script: try main() / except SnapeCancel / except Exception
run(exc) ==
    IF exc = "ok" THEN [code |-> 0, stderr |-> <<>>]
    ELSE IF exc = "SnapeCancel" THEN [code |-> 0, stderr |-> <<>>]
    ELSE [code |-> 1, stderr |-> <<exc>>]

\* what is at the path of the global root
RootNodes == {Absent, File, PlainDir}

MainInit ==
    /\ \E r \in RootNodes : fs = [BaseFs EXCEPT ![Root] = r]
    /\ SNAPE_ROOT_PATH \in {None, Root}
    /\ SNAPE_VENV = ".venv"
    /\ cwd = Home
    /\ VIRTUAL_ENV = None
    /\ FORBIDDEN_ENV_NAMES = cli_import(SeedForbiddenNames)
    /\ started = TRUE
    /\ last = [op |-> "none"]

\* main() runs up to the return or the exception of the handler
Main ==
    /\ last.op = "none"
    /\ \E func \in Funcs, shell_ok \in BOOLEAN, handler_exc \in HandlerExceptions :
        /\ (~shell_ok => handler_exc = "ok")
        /\ LET m == main(fs, func, shell_ok, handler_exc) IN
            last' = [op |-> "main", func |-> func, dispatched |-> m.dispatched,
                     exc |-> m.exc]
    /\ UNCHANGED <<fs, config, FORBIDDEN_ENV_NAMES, started>>

\* the main script handles what main() raised and the process ends
ProcessExit ==
    /\ last.op = "main"
    /\ LET r == run(last.exc) IN
        last' = [op |-> "exit", func |-> last.func, dispatched |-> last.dispatched,
                 exc |-> last.exc, code |-> r.code, stderr |-> r.stderr]
    /\ UNCHANGED <<fs, config, FORBIDDEN_ENV_NAMES, started>>

MainNext == Main \/ ProcessExit

MainSpec == MainInit /\ [][MainNext]_vars

\* C21: a command that ends with SnapeCancel exits with code 0 and prints
\* nothing to the error stream; a command that ends with any other exception
\* prints its message to the error stream and exits with a code other
\* than 0.
C21_ExitStatus ==
    last.op = "exit"
        => /\ last.exc = "SnapeCancel" => (last.code = 0 /\ last.stderr = <<>>)
           /\ last.exc \notin {"ok", "SnapeCancel"}
                => (last.code # 0 /\ last.stderr = <<last.exc>>)

C21_Witness ==
    /\ last.op = "exit"
    /\ last.dispatched
    /\ last.exc = "SnapeCancel"
    /\ last.code = 0

\* C22: main fails before it calls a handler other than setup init whenever
\* the global root is not set or is not an existing directory: no other
\* handler runs with a missing or invalid root.
C22_RootRequired ==
    (last.op \in {"main", "exit"} /\ last.func # "snape_setup_init"
        /\ (SNAPE_ROOT_PATH = None \/ ~is_dir(fs, Root)))
        => ~last.dispatched

\* C23: get_snape_env_path(None, False) fails with RuntimeError, or with
\* ValueError when warn_argument_conflicts is false, without a look at the
\* filesystem; so does the empty name with local = False.
C23_MissingNameRefused ==
    (last.op = "get_snape_env_path_full" /\ ~last.local
        /\ last.name \in {None, <<>>})
        => /\ last.exc = IF last.name = None /\ last.warn
                         THEN "RuntimeError" ELSE "ValueError"
           /\ last.ret = None
           /\ last.reads = 0

C23_Witness ==
    /\ last.op = "get_snape_env_path_full"
    /\ ~last.local
    /\ last.name = None
    /\ ~last.warn
    /\ last.exc = "ValueError"

-----------------------------------------------------------------------------
(* Properties of the commands, continued *)

\* C24: snape attach ENV without --as and without --local makes a global
\* environment named like ENV: the destination is the root joined with the
\* final segment of ENV.
C24_AttachKeepsName ==
    (last.op = "attach" /\ last.global_name = None /\ ~last.here
        /\ last.src # None /\ parent(last.src) # SNAPE_ROOT_PATH)
        => /\ last.env = SNAPE_ROOT_PATH \o <<name(last.src)>>
           /\ last.exc # "RuntimeError"

\* C27: after attach or detach completed successfully with delete-old
\* requested, the destination is a valid environment and the source no
\* longer exists, wherever the destination lies (inside the tree of the
\* source included).
C27_DeleteOldMoves ==
    (/\ last.op \in {"attach", "detach"}
     /\ last.freeze
     /\ last.delete_old
     /\ last.exc = "ok")
        => Kind(fs, last.env) = "env" /\ ~exists(fs, last.src)

\* C29: every path that get_snape_env_path(name, local=False) returns for a
\* name it accepts is a strict descendant of the global root:
\* is_global_snape_env_path(result, check_exists=False) holds.
C29_GlobalPathBelowRoot ==
    (/\ last.op = "get_snape_env_path_full"
     /\ ~last.local
     /\ last.exc = "ok")
        => is_global_snape_env_path(fs, last.ret, FALSE)

\* C30: create_new_snape_env calls venv.create on a path that already is a
\* valid environment only under force (overwrite = True) or after the
\* operator answered yes to the overwrite prompt, and then always with the
\* clear flag; with overwrite = False an existing valid environment is not
\* touched.
C30_OverwriteNeedsConsent ==
    (last.op = "create" /\ last.was = "env") =>
        /\ last.created # {} =>
            /\ last.policy = "True" \/ Answered("overwrite", "y")
            /\ last.created = {<<last.env, TRUE>>}
        /\ last.policy = "False" => last.created = {} /\ ~last.changed

-----------------------------------------------------------------------------
(* snape help *)

\* longest list of names given to snape help
MaxCmds == 3

\* the names given to snape help: subcommands, an alias, and a word that is
\* no subcommand
HelpNames == {"new", "rm", "setup", "bogus"}

RECURSIVE CmdsUpTo(_)
CmdsUpTo(n) ==
    IF n = 0 THEN {<<>>}
    ELSE LET shorter == CmdsUpTo(n - 1) IN
         shorter \cup {Append(c, x) : c \in shorter, x \in HelpNames}

\* what a run prints: the lines on standard output and on the error stream
Printed(stdout, stderr) == [stdout |-> stdout, stderr |-> stderr]

\* util.log: a line on standard output in debug mode, nothing otherwise
log(debug, message) == IF debug THEN <<<<"log", message>>>> ELSE <<>>

RECURSIVE help_loop_aborting(_, _, _)
\* help_loop mutated: the first unknown name ends the loop
help_loop_aborting(cmd, commands, debug) ==
    IF cmd = <<>> THEN Printed(<<>>, <<>>)
    ELSE LET command == Head(cmd) IN
         IF command \notin commands
         THEN Printed(<<>>, <<<<"Subcommand not found:", command>>>>)
         ELSE LET rest == help_loop_aborting(Tail(cmd), commands, debug) IN
              Printed(log(debug, command) \o <<<<"help", command>>, <<"newline", command>>>>
                          \o rest.stdout,
                      rest.stderr)

RECURSIVE help_loop(_, _, _)
\* the loop of snape_help over the names given
help_loop(cmd, commands, debug) ==
    IF cmd = <<>> THEN Printed(<<>>, <<>>)
    ELSE LET command == Head(cmd)
             rest == help_loop(Tail(cmd), commands, debug)
         IN IF command \notin commands
            THEN Printed(rest.stdout,
                         <<<<"Subcommand not found:", command>>>> \o rest.stderr)
            ELSE Printed(log(debug, command) \o <<<<"help", command>>, <<"newline", command>>>>
                             \o rest.stdout,
                         rest.stderr)

snape_help(cmd, debug) ==
    IF Len(cmd) = 0 THEN Printed(<<<<"help", "snape">>>>, <<>>)
    ELSE help_loop(cmd, SubcommandChoices, debug)

HelpInit ==
    /\ fs = BaseFs
    /\ SNAPE_ROOT_PATH = Root
    /\ SNAPE_VENV = ".venv"
    /\ cwd = Home
    /\ VIRTUAL_ENV = None
    /\ FORBIDDEN_ENV_NAMES = cli_import(SeedForbiddenNames)
    /\ started = TRUE
    /\ last = [op |-> "none"]

\* snape help, with or without -v
Help ==
    /\ last.op = "none"
    /\ \E cmd \in CmdsUpTo(MaxCmds), debug \in BOOLEAN :
        LET r == snape_help(cmd, debug) IN
        last' = [op |-> "snape_help", cmd |-> cmd, debug |-> debug,
                 stdout |-> r.stdout, stderr |-> r.stderr]
    /\ UNCHANGED <<fs, config, FORBIDDEN_ENV_NAMES, started>>

HelpNext == Help

HelpSpec == HelpInit /\ [][HelpNext]_vars

\* the names of cmd that are subcommands, in the order given
Registered(cmd) == SelectSeq(cmd, LAMBDA c : c \in SubcommandChoices)

\* the names of cmd that are no subcommands, in the order given
Unregistered(cmd) == SelectSeq(cmd, LAMBDA c : c \notin SubcommandChoices)

\* the help texts on standard output, in the order printed
HelpsPrinted == SelectSeq(last.stdout, LAMBDA l : l[1] = "help")

\* C25 as stated: snape_help(cmd) prints the help of every registered name
\* of cmd in the order given, so that standard output starts with the help
\* of the first of them; the other names are reported on the error stream
\* and skipped; for the empty cmd the top-level help is printed.
C25_Stated ==
    last.op = "snape_help"
        => /\ last.cmd = <<>> => last.stdout = <<<<"help", "snape">>>>
           /\ last.cmd # <<>> =>
                /\ HelpsPrinted = [k \in 1..Len(Registered(last.cmd)) |->
                                      <<"help", Registered(last.cmd)[k]>>]
                /\ last.stderr = [k \in 1..Len(Unregistered(last.cmd)) |->
                                      <<"Subcommand not found:", Unregistered(last.cmd)[k]>>]
                /\ Registered(last.cmd) # <<>> =>
                      Head(last.stdout) = <<"help", Head(Registered(last.cmd))>>

\* C25: snape_help(cmd) prints the help of every registered name of cmd in
\* the order given and reports the other names on the error stream without
\* stopping; for the empty cmd the top-level help is printed.  Standard
\* output starts with the help of the first registered name only when debug
\* output is off: in debug mode every help text comes after a debug line.
C25_HelpInOrder ==
    last.op = "snape_help"
        => /\ last.cmd = <<>> => last.stdout = <<<<"help", "snape">>>>
           /\ last.cmd # <<>> =>
                /\ HelpsPrinted = [k \in 1..Len(Registered(last.cmd)) |->
                                      <<"help", Registered(last.cmd)[k]>>]
                /\ last.stderr = [k \in 1..Len(Unregistered(last.cmd)) |->
                                      <<"Subcommand not found:", Unregistered(last.cmd)[k]>>]
                /\ Registered(last.cmd) # <<>> =>
                      Head(last.stdout) =
                          <<IF last.debug THEN "log" ELSE "help",
                            Head(Registered(last.cmd))>>
                /\ \A k \in 1..Len(last.stdout) :
                      (last.stdout[k][1] = "help" /\ last.debug)
                          => (k > 1 /\ last.stdout[k - 1] = <<"log", last.stdout[k][2]>>)

C25_Witness ==
    /\ last.op = "snape_help"
    /\ ~last.debug
    /\ Len(last.cmd) = 3
    /\ Head(last.cmd) = "bogus"
    /\ Len(HelpsPrinted) = 2
    /\ Len(last.stderr) = 1

-----------------------------------------------------------------------------
(* snape delete on every tree of environments *)

\* the tree in which the given nodes are at /snape/a, /snape/a/b and
\* /home/.venv
DeleteFs(a, b, l) ==
    [p \in Paths |->
        IF p \in {<<>>, Root, Home} THEN PlainDir
        ELSE IF p = EnvA THEN a
        ELSE IF p = EnvAB THEN (IF a.kind = "dir" THEN b ELSE Absent)
        ELSE IF p = LocalEnv THEN l
        ELSE Absent]

DeleteInit ==
    /\ \E a \in TreeNodes, b \in TreeNodes, l \in TreeNodes : fs = DeleteFs(a, b, l)
    /\ SNAPE_ROOT_PATH = Root
    /\ SNAPE_VENV = ".venv"
    /\ cwd = Home
    /\ VIRTUAL_ENV \in {None, EnvA}
    /\ FORBIDDEN_ENV_NAMES = cli_import(SeedForbiddenNames)
    /\ started = TRUE
    /\ last = [op |-> "none"]

\* the paths snape delete is asked to remove: the named ones, then the
\* local one
Requested(i) ==
    [k \in 1..Len(i.envs) |-> SNAPE_ROOT_PATH \o i.envs[k]]
        \o (IF i.here THEN <<cwd \o <<SNAPE_VENV>>>> ELSE <<>>)

\* snape delete with its arguments and the answers of the operator
SnapeDelete ==
    /\ last.op = "none"
    /\ \E i \in DeleteInputs :
        LET o == snape_delete(fs, i) IN
            /\ fs' = o.fs
            /\ last' = [op |-> "snape_delete", input |-> i, request |-> Requested(i),
                        before |-> fs, exc |-> o.exc, asked |-> o.asked,
                        removed |-> o.removed, deleted |-> o.deleted]
    /\ UNCHANGED <<config, FORBIDDEN_ENV_NAMES, started>>

DeleteNext == SnapeDelete

DeleteSpec == DeleteInit /\ [][DeleteNext]_vars

\* a completed run of snape delete
DeleteRan == last.op = "snape_delete"

\* the positions of the request whose environment a completed run has to
\* remove: valid before the run, not declined, and not already removed with
\* an earlier position
Due ==
    LET i == last.input
        req == last.request
        D[k \in 1..Len(req)] ==
            /\ Kind(last.before, req[k]) = "env"
            /\ (~i.do_ask \/ i.answers[k])
            /\ \A j \in 1..(k - 1) :
                D[j] => req[j] # req[k] /\ req[j] \notin parents(req[k])
    IN {k \in 1..Len(req) : D[k]}

\* C26: snape delete returns exactly the environments it removed, in the
\* order of the request (named ones first, the local one last); a declined
\* one is neither removed nor returned and the later ones are still
\* processed; with ignore_not_exists a missing or invalid path is skipped
\* and never removed; with no names and here = false it fails with
\* ValueError before any change of the filesystem.
C26_DeleteReturnsRemoved ==
    DeleteRan =>
        LET i == last.input
            req == last.request
        IN /\ (Len(i.envs) = 0 /\ ~i.here) =>
                  last.exc = "ValueError" /\ fs = last.before /\ last.asked = <<>>
           /\ \A m \in 1..Len(last.removed) :
                /\ last.removed[m][2] = "env"
                /\ \E k \in 1..Len(req) :
                    req[k] = last.removed[m][1] /\ (~i.do_ask \/ i.answers[k])
           /\ last.exc = "ok" =>
                /\ last.deleted = [m \in 1..Len(last.removed) |-> last.removed[m][1]]
                /\ Len(last.deleted) = Cardinality(Due)
                /\ \A m \in 1..Len(last.deleted) :
                    \E k \in Due :
                        /\ Cardinality({j \in Due : j < k}) = m - 1
                        /\ last.deleted[m] = req[k]
                /\ \A k \in 1..Len(req) :
                    IF k \in Due
                    THEN ~exists(fs, req[k])
                    ELSE Kind(last.before, req[k]) # "env"
                            \/ Kind(fs, req[k]) = Kind(last.before, req[k])
                            \/ \E j \in Due : req[j] \in parents(req[k]) \cup {req[k]}

\* a run that skips an invalid path, is declined for the first environment
\* and removes the local one after it
C26_Witness ==
    /\ DeleteRan
    /\ last.exc = "ok"
    /\ last.input.ignore_not_exists
    /\ last.input.do_ask
    /\ last.request = <<EnvAB, EnvA, LocalEnv>>
    /\ Kind(last.before, EnvAB) = "dir"
    /\ last.asked = <<<<"delete", "n">>, <<"delete", "y">>>>
    /\ last.deleted = <<LocalEnv>>
    /\ Kind(fs, EnvA) = "env"

-----------------------------------------------------------------------------
(* snape clean *)

LocalNested == <<"home", ".venv", "x">>

\* the paths of the trees snape clean is run on
CleanPaths == {<<>>, Root, EnvA, EnvAB, EnvC, Home, LocalEnv, LocalNested}

\* the tree in which the given nodes sit below the directories that exist
CleanFs(r, a, b, c, l, n) ==
    [p \in CleanPaths |->
        IF p \in {<<>>, Home} THEN PlainDir
        ELSE IF p = Root THEN r
        ELSE IF p = EnvA THEN (IF r.kind = "dir" THEN a ELSE Absent)
        ELSE IF p = EnvAB THEN (IF r.kind = "dir" /\ a.kind = "dir" THEN b ELSE Absent)
        ELSE IF p = EnvC THEN (IF r.kind = "dir" THEN c ELSE Absent)
        ELSE IF p = LocalEnv THEN l
        ELSE (IF l.kind = "dir" THEN n ELSE Absent)]

CleanInit ==
    /\ \E r \in {Absent, File, PlainDir}, a \in TreeNodes, b \in TreeNodes,
          c \in TreeNodes, l \in TreeNodes, n \in TreeNodes :
        fs = CleanFs(r, a, b, c, l, n)
    /\ SNAPE_ROOT_PATH = Root
    /\ SNAPE_VENV = ".venv"
    /\ cwd = Home
    /\ VIRTUAL_ENV = None
    /\ FORBIDDEN_ENV_NAMES = cli_import(SeedForbiddenNames)
    /\ started = TRUE
    /\ last = [op |-> "none"]

RECURSIVE remove_files(_, _)
\* the removal loop of snape_clean: os.remove for a file, shutil.rmtree for
\* a directory, nothing for a path that is neither
remove_files(f, unknown_files) ==
    IF unknown_files = {} THEN [fs |-> f, removed_files |-> {}]
    ELSE LET other_file == CHOOSE o \in unknown_files : TRUE
             rest == remove_files(IF exists(f, other_file) THEN rmtree(f, other_file) ELSE f,
                                  unknown_files \ {other_file})
         IN [fs |-> rest.fs,
             removed_files |-> rest.removed_files \cup
                 (IF exists(f, other_file) THEN {other_file} ELSE {})]

CleanOutcome(exc, f, asked, removed_files) ==
    [exc |-> exc, fs |-> f, asked |-> asked, removed_files |-> removed_files]

snape_clean(f, do_ask, answer) ==
    LET broken_local_venv == get_snape_env_path(None, TRUE).ret
        unknown_local_files ==
            IF exists(f, broken_local_venv) /\ ~is_virtual_env(f, broken_local_venv)
            THEN {broken_local_venv} ELSE {}
    IN
    IF ~is_dir(f, SNAPE_ROOT_PATH)
    THEN CleanOutcome(IF exists(f, SNAPE_ROOT_PATH) THEN "NotADirectoryError"
                      ELSE "FileNotFoundError", f, <<>>, {})
    ELSE LET global_venv_files == listdir(f, SNAPE_ROOT_PATH)
             global_venvs == get_global_snape_envs(f).ret
             no_venvs == global_venv_files \ global_venvs
             unknown_global_files ==
                 {other_file \in no_venvs :
                     ~\E global_venv \in global_venvs : other_file \in parents(global_venv)}
             unknown_files == unknown_global_files \cup unknown_local_files
         IN
    IF unknown_files = {} THEN CleanOutcome("ok", f, <<>>, {})
    ELSE IF do_ask /\ ~answer
    THEN CleanOutcome("SnapeCancel", f, <<<<"clean", "n">>>>, {})
    ELSE LET r == remove_files(f, unknown_files) IN
         CleanOutcome("ok", r.fs, IF do_ask THEN <<<<"clean", "y">>>> ELSE <<>>,
                      r.removed_files)

\* snape clean, with the answer of the operator
Clean ==
    /\ last.op = "none"
    /\ \E do_ask \in BOOLEAN, answer \in BOOLEAN :
        /\ ~do_ask => answer
        /\ LET o == snape_clean(fs, do_ask, answer) IN
            /\ fs' = o.fs
            /\ last' = [op |-> "snape_clean", do_ask |-> do_ask, before |-> fs,
                        exc |-> o.exc, asked |-> o.asked,
                        removed_files |-> o.removed_files]
    /\ UNCHANGED <<config, FORBIDDEN_ENV_NAMES, started>>

CleanNext == Clean

CleanSpec == CleanInit /\ [][CleanNext]_vars

\* C28: snape clean never removes a valid environment, neither directly nor
\* with a directory it removes: every removed path is the local marker path
\* of the working directory (existing, not a valid environment) or a direct
\* child of the global root that is not a valid environment, and no removed
\* directory contains a valid environment; a declined prompt removes nothing
\* and raises SnapeCancel.
C28_CleanSparesEnvironments ==
    last.op = "snape_clean" =>
        /\ \A p \in last.removed_files :
            /\ ~is_virtual_env(last.before, p)
            /\ exists(last.before, p)
            /\ p = cwd \o <<SNAPE_VENV>> \/ parent(p) = SNAPE_ROOT_PATH
        /\ \A q \in DOMAIN last.before :
            is_virtual_env(last.before, q) => is_virtual_env(fs, q)
        /\ Answered("clean", "n") =>
            last.exc = "SnapeCancel" /\ fs = last.before

====
